---- MODULE Spec2Model ----
(***************************************************************************)
(* Model of the TikTok client (src/tiktok_api.py) and of the service layer *)
(* above it (src/tiktok_service.py).                                       *)
(*                                                                         *)
(* The program is single-threaded and synchronous.  One top-level call is  *)
(* in progress at a time; pc is the position inside it.  Every HTTP        *)
(* attempt and every backoff sleep of the call is appended to log, in the  *)
(* order the code performs them.  The remote side (status codes, bodies,   *)
(* connection failures, whether the file exists) is the environment.       *)
(*                                                                         *)
(* Texts that the code transforms (caption, hashtags, path) are sequences  *)
(* of one-character strings; opaque texts (URLs, messages) are strings.    *)
(* A Python value that may be None is a sequence of length 0 or 1.         *)
(***************************************************************************)
EXTENDS Integers, Sequences, FiniteSets, TLC

VARIABLES
    jsonErrIsRequestException, \* build: requests >= 2.27 derives JSONDecodeError from RequestException
    pc,          \* "idle" | "request" | "open" | "raw" | "uploaded" | "done"
    layer,       \* "service" (TikTokService) or "api" (TikTokAPI called directly)
    op,          \* the method the caller invoked
    args,        \* its caption / hashtags / video_url / path arguments
    stage,       \* which caller the running _make_request returns to
    req,         \* locals of the running _make_request
    uploadInfo,  \* _upload_video: upload_info
    log,         \* the HTTP attempts and sleeps of this call, in order
    apiOutcome,  \* how the TikTokAPI method ended
    result       \* what the caller of the top-level call received

vars == <<jsonErrIsRequestException, pc, layer, op, args, stage, req,
          uploadInfo, log, apiOutcome, result>>

---------------------------------------------------------------------------
(* Bounds of the model *)

MaxRetries == 4
MaxTags == 2

(* Program constants *)

DefaultRetriesFour == 2 + 2
DefaultRetries == 3
TitleLimit == 80
BackoffBase == 2

---------------------------------------------------------------------------
(* Optional values and small helpers *)

None == <<>>
Some(x) == <<x>>

Min(a, b) == IF a < b THEN a ELSE b

Rep(c, n) == [i \in 1..n |-> c]


---------------------------------------------------------------------------
(* Text operations of post_video *)

Whitespace == {" "}

Strip(s) ==
    LET keep == {i \in 1..Len(s) : s[i] \notin Whitespace}
    IN  IF keep = {} THEN <<>>
        ELSE SubSeq(s, CHOOSE i \in keep : \A j \in keep : i <= j,
                       CHOOSE i \in keep : \A j \in keep : i >= j)

RECURSIVE Join(_, _)
Join(sep, parts) ==
    IF parts = <<>> THEN <<>>
    ELSE IF Len(parts) = 1 THEN parts[1]
    ELSE parts[1] \o sep \o Join(sep, Tail(parts))

HashtagStr(hashtags) ==
    Join(<<" ">>, [i \in 1..Len(hashtags) |-> <<"#">> \o hashtags[i]])

FullCaptionRStrip(caption, hashtags) ==
    LET s == caption \o <<" ">> \o HashtagStr(hashtags)
    IN  IF s[Len(s)] \in Whitespace THEN SubSeq(s, 1, Len(s) - 1) ELSE s
FullCaption(caption, hashtags) ==
    Strip(caption \o <<" ">> \o HashtagStr(hashtags))

Title(full_caption) == SubSeq(full_caption, 1, Min(TitleLimit, Len(full_caption)))

PostData(video_url, caption, hashtags) ==
    LET full_caption == FullCaption(caption, hashtags)
    IN  [video_url |-> video_url,
         caption   |-> full_caption,
         post_info |-> [title           |-> Title(full_caption),
                        disable_comment |-> FALSE,
                        disable_duet    |-> FALSE,
                        disable_stitch  |-> FALSE]]

Basename(path) == IF path = <<>> THEN "" ELSE path[Len(path)]

UploadData(video_path) ==
    [source       |-> "FILE_UPLOAD",
     content_type |-> "video/mp4",
     filename     |-> Basename(video_path)]

---------------------------------------------------------------------------
(* _make_request: the pure parts *)

ApiSecret == "secret"

Upper(method) ==
    CASE method = "get"  -> "GET"
      [] method = "post" -> "POST"
      [] OTHER           -> method

InjectSecret(data) ==
    LET d == IF data = None THEN <<>> ELSE data[1]
    IN  Some([k \in DOMAIN d \cup {"api_secret"} |->
                IF k = "api_secret" THEN ApiSecret ELSE d[k]])

WireJsonAlways(method, data) == data
WireJson(method, data) ==
    IF Upper(method) \in {"POST", "PUT", "PATCH"} THEN data ELSE None

WireParams(method, params) ==
    IF Upper(method) = "GET" THEN params ELSE None

Frame(method, endpoint, data, params, retries) ==
    [method   |-> method,
     endpoint |-> endpoint,
     data     |-> InjectSecret(data),
     params   |-> params,
     retries  |-> retries,
     attempt  |-> 0]

LoopCond(attempt, retries) == attempt < retries

WaitTimeLinear(attempt) == BackoffBase * attempt
WaitTime(attempt) == BackoffBase ^ attempt

(* Exceptions are [type, msg]; msg is str(e). *)
Exc(type, msg) == [type |-> type, msg |-> msg]

HTTPError       == Exc("HTTPError", "500 Server Error")
ConnectionError == Exc("ConnectionError", "Connection refused")
Timeout         == Exc("Timeout", "Read timed out")
JSONDecodeError == Exc("JSONDecodeError", "Expecting value")
FileNotFound    == Exc("FileNotFoundError", "No such file or directory")
AttributeError  == Exc("AttributeError", "object has no attribute 'get'")
MissingSchema   == Exc("MissingSchema", "Invalid URL 'None': No scheme supplied")

NetworkFailures == {HTTPError, ConnectionError, Timeout}

IsRequestException(e) ==
    \/ e.type \in {"HTTPError", "ConnectionError", "Timeout", "MissingSchema"}
    \/ e.type = "JSONDecodeError" /\ jsonErrIsRequestException

(* What one attempt meets: a 2xx with a JSON body, a 2xx whose body is not *)
(* JSON, or a failure raised by session.request / raise_for_status.        *)
OkJson(body) == [kind |-> "json", body |-> body]
BadJson      == [kind |-> "badjson"]
Failure(e)   == [kind |-> "error", exc |-> e]

Raised(outcome) == IF outcome.kind = "badjson" THEN JSONDecodeError ELSE outcome.exc

(* Lines 89-98: the except clause, for an attempt that raised e. *)
HandleFailure(e, attempt, retries) ==
    IF ~IsRequestException(e)
    THEN [ctl |-> "raise", value |-> None, exc |-> Some(e),
          attempt |-> attempt, sleep |-> None]
    ELSE IF attempt + 1 >= retries
    THEN [ctl |-> "raise", value |-> None, exc |-> Some(e),
          attempt |-> attempt + 1, sleep |-> None]
    ELSE [ctl |-> "retry", value |-> None, exc |-> None,
          attempt |-> attempt + 1, sleep |-> Some(WaitTime(attempt + 1))]

(* Lines 76-98: what the loop body does with the outcome of one attempt. *)
HandleNoReturn(outcome, attempt, retries) ==
    IF outcome.kind = "json"
    THEN [ctl |-> "retry", value |-> None, exc |-> None,
          attempt |-> attempt + 1, sleep |-> None]
    ELSE HandleFailure(Raised(outcome), attempt, retries)
Handle(outcome, attempt, retries) ==
    IF outcome.kind = "json"
    THEN [ctl |-> "return", value |-> Some(outcome.body), exc |-> None,
          attempt |-> attempt, sleep |-> None]
    ELSE HandleFailure(Raised(outcome), attempt, retries)

RequestEvent(r, outcome) ==
    [ev       |-> "request",
     via      |-> "session",
     method   |-> r.method,
     endpoint |-> r.endpoint,
     json     |-> WireJson(r.method, r.data),
     params   |-> WireParams(r.method, r.params),
     outcome  |-> outcome]

SleepEvent(seconds) == [ev |-> "sleep", seconds |-> seconds]

RawUploadEvent(upload_url, outcome) ==
    [ev       |-> "request",
     via      |-> "requests.post",
     method   |-> "POST",
     endpoint |-> upload_url,
     json     |-> None,
     params   |-> None,
     outcome  |-> outcome]

---------------------------------------------------------------------------
(* Service layer: the try/except of each TikTokService method *)

SuccessMessage(o) ==
    IF o = "get_account_info" THEN "Account information retrieved successfully"
    ELSE "Video posted successfully"

FailurePrefix(o) ==
    IF o = "get_account_info" THEN "Failed to get account information: "
    ELSE "Failed to post video: "

Returned(v) == [kind |-> "return", value |-> v, exc |-> None]
Raising(e)  == [kind |-> "raise", value |-> None, exc |-> Some(e)]

ServiceEnvelopeReraise(o, out) ==
    IF out.kind = "return"
    THEN Returned(Some([success |-> TRUE,
                        message |-> <<SuccessMessage(o)>>,
                        data    |-> out.value]))
    ELSE IF o = "get_account_info" THEN out
    ELSE Returned(Some([success |-> FALSE,
                        message |-> <<FailurePrefix(o), out.exc[1].msg>>,
                        error   |-> out.exc[1].msg]))
ServiceEnvelope(o, out) ==
    IF out.kind = "return"
    THEN Returned(Some([success |-> TRUE,
                        message |-> <<SuccessMessage(o)>>,
                        data    |-> out.value]))
    ELSE Returned(Some([success |-> FALSE,
                        message |-> <<FailurePrefix(o), out.exc[1].msg>>,
                        error   |-> out.exc[1].msg]))

---------------------------------------------------------------------------
(* Inputs *)

Methods == {"GET", "POST", "PUT", "PATCH", "DELETE", "get", "post"}

Hello == <<"H", "e", "l", "l", "o">>
Tags  == {<<"f", "y", "p">>, <<"v", "i", "r", "a", "l">>}

CaptionBodies == {<<>>, Hello, Rep("a", TitleLimit - 2), Rep("a", TitleLimit + 1)}
Captions ==
    {lead \o body \o trail :
        lead \in {<<>>, <<" ">>}, body \in CaptionBodies, trail \in {<<>>, <<" ">>}}

HashtagLists == UNION {[1..n -> Tags] : n \in 0..MaxTags}

FileCaptions     == {Hello}
FileHashtagLists == {h \in HashtagLists : Len(h) <= 1}

VideoPath == <<"videos", "clip.mp4">>

DirectData   == {None, Some([k |-> "v", api_secret |-> "stale"])}
DirectParams == {None, Some([video_id |-> "42"])}
RetryBudgets == (-1)..MaxRetries

(* Decoded JSON bodies.  The init-upload response may lack either URL, or  *)
(* not be a JSON object at all.                                            *)
JsonObject(upload_url, video_url) ==
    [type |-> "dict", upload_url |-> upload_url, video_url |-> video_url]
JsonArray == [type |-> "list", upload_url |-> None, video_url |-> None]

PlainBody  == JsonObject(None, None)
InitBodies ==
    {JsonObject(u, v) : u \in {None, Some("https://upload")},
                        v \in {None, Some("https://video")}} \cup {JsonArray}

Bodies(s) == IF s = "init" THEN InitBodies ELSE {PlainBody}

Outcomes(s) ==
    {OkJson(b) : b \in Bodies(s)} \cup {BadJson} \cup {Failure(e) : e \in NetworkFailures}

RawOk == [kind |-> "ok"]
RawOutcomes == {RawOk, Failure(HTTPError), Failure(ConnectionError)}

NoArgs == [caption |-> <<>>, hashtags |-> <<>>, video_url |-> None, path |-> <<>>]
NoOutcome == [kind |-> "none", value |-> None, exc |-> None]
NoFrame == [method |-> "", endpoint |-> "", data |-> None, params |-> None,
            retries |-> 0, attempt |-> 0]

---------------------------------------------------------------------------
(* State machine *)

Init ==
    /\ jsonErrIsRequestException \in BOOLEAN
    /\ pc = "idle"
    /\ layer = "api"
    /\ op = "none"
    /\ args = NoArgs
    /\ stage = "none"
    /\ req = NoFrame
    /\ uploadInfo = None
    /\ log = <<>>
    /\ apiOutcome = NoOutcome
    /\ result = NoOutcome

(* Calls share no state (the session holds connections only), so each     *)
(* behaviour follows one top-level call from the idle client to its end.   *)
CanCall == pc = "idle"

Begin(l, o, a, s, r) ==
    /\ CanCall
    /\ pc' = "request"
    /\ layer' = l
    /\ op' = o
    /\ args' = a
    /\ stage' = s
    /\ req' = r
    /\ uploadInfo' = None
    /\ log' = <<>>
    /\ apiOutcome' = NoOutcome
    /\ result' = NoOutcome
    /\ UNCHANGED jsonErrIsRequestException

(* A caller invokes TikTokAPI._make_request itself. *)
CallMakeRequest(method, data, params, retries) ==
    Begin("api", "_make_request", NoArgs, "direct",
          Frame(method, "/any", data, params, retries))

(* TikTokAPI.post_video, directly or through TikTokService.post_video. *)
PostVideoFrame(video_url, caption, hashtags) ==
    Frame("POST", "/post/publish/video/url",
          Some(PostData(video_url, caption, hashtags)), None, DefaultRetries)

CallPostVideo(l, video_url, caption, hashtags) ==
    Begin(l, "post_video",
          [NoArgs EXCEPT !.caption = caption, !.hashtags = hashtags, !.video_url = video_url],
          "publish", PostVideoFrame(video_url, caption, hashtags))

(* TikTokAPI.post_video_file up to the first attempt of init-upload. *)
CallPostVideoFile(l, video_path, caption, hashtags) ==
    Begin(l, "post_video_file",
          [NoArgs EXCEPT !.caption = caption, !.hashtags = hashtags, !.path = video_path],
          "init",
          Frame("POST", "/post/publish/video/init", Some(UploadData(video_path)),
                None, DefaultRetries))

CallGetAccountInfo(l) ==
    Begin(l, "get_account_info", NoArgs, "account",
          Frame("GET", "/user/info", None, None, DefaultRetries))

CallGetVideoStatus(video_id) ==
    Begin("api", "get_video_status", NoArgs, "status",
          Frame("GET", "/post/publish/status", None, Some([video_id |-> video_id]),
                DefaultRetries))

(* The TikTokAPI method ends; the service layer, when present, wraps it. *)
Deliver(out) ==
    /\ pc' = "done"
    /\ apiOutcome' = out
    /\ result' = IF layer = "service" THEN ServiceEnvelope(op, out) ELSE out

(* _make_request returns v to its caller. *)
ReturnFromRequest(v) ==
    IF stage = "init"
    THEN /\ pc' = "open"
         /\ uploadInfo' = v
         /\ UNCHANGED <<apiOutcome, result>>
    ELSE /\ Deliver(Returned(v))
         /\ UNCHANGED uploadInfo

(* One iteration of the while loop of _make_request. *)
Attempt(outcome) ==
    /\ pc = "request"
    /\ LoopCond(req.attempt, req.retries)
    /\ LET h == Handle(outcome, req.attempt, req.retries)
       IN  /\ req' = [req EXCEPT !.attempt = h.attempt]
           /\ log' = log \o <<RequestEvent(req, outcome)>>
                         \o (IF h.sleep = None THEN <<>> ELSE <<SleepEvent(h.sleep[1])>>)
           /\ CASE h.ctl = "return" -> ReturnFromRequest(h.value)
                [] h.ctl = "raise"  -> Deliver(Raising(h.exc[1])) /\ UNCHANGED uploadInfo
                [] OTHER            -> UNCHANGED <<pc, uploadInfo, apiOutcome, result>>
    /\ UNCHANGED <<jsonErrIsRequestException, layer, op, args, stage>>

(* The while condition is false: the function body ends, returning None. *)
FallThrough ==
    /\ pc = "request"
    /\ ~LoopCond(req.attempt, req.retries)
    /\ ReturnFromRequest(None)
    /\ UNCHANGED <<jsonErrIsRequestException, layer, op, args, stage, req, log>>

(* _upload_video line 175: open(video_path, "rb"). *)
OpenFile(exists) ==
    /\ pc = "open"
    /\ IF exists
       THEN pc' = "raw" /\ UNCHANGED <<apiOutcome, result>>
       ELSE Deliver(Raising(FileNotFound))
    /\ UNCHANGED <<jsonErrIsRequestException, layer, op, args, stage, req, uploadInfo, log>>

RawUploadNextIgnoreStatus(outcome) == "uploaded"
RawUploadNext(outcome) == IF outcome.kind = "ok" THEN "uploaded" ELSE "raise"

(* _upload_video lines 176-180: the direct multipart upload. *)
RawUpload(outcome) ==
    /\ pc = "raw"
    /\ IF uploadInfo = None \/ uploadInfo[1].type # "dict"
       THEN Deliver(Raising(AttributeError)) /\ UNCHANGED log
       ELSE IF uploadInfo[1].upload_url = None
       THEN Deliver(Raising(MissingSchema)) /\ UNCHANGED log
       ELSE /\ log' = log \o <<RawUploadEvent(uploadInfo[1].upload_url[1], outcome)>>
            /\ IF RawUploadNext(outcome) = "uploaded"
               THEN pc' = "uploaded" /\ UNCHANGED <<apiOutcome, result>>
               ELSE Deliver(Raising(outcome.exc))
    /\ UNCHANGED <<jsonErrIsRequestException, layer, op, args, stage, req, uploadInfo>>

UploadVideoResultUploadUrl(upload_info) == upload_info.upload_url
UploadVideoResult(upload_info) == upload_info.video_url

(* Line 182 and line 152: _upload_video returns, post_video is called. *)
PublishUploaded ==
    /\ pc = "uploaded"
    /\ pc' = "request"
    /\ stage' = "publish"
    /\ req' = PostVideoFrame(UploadVideoResult(uploadInfo[1]), args.caption, args.hashtags)
    /\ UNCHANGED <<jsonErrIsRequestException, layer, op, args, uploadInfo, log,
                   apiOutcome, result>>

Layers == {"service", "api"}

Next ==
    \/ CanCall /\ \E m \in Methods, d \in DirectData, p \in DirectParams, n \in RetryBudgets :
          CallMakeRequest(m, d, p, n)
    \/ CanCall /\ \E l \in Layers, c \in Captions, h \in HashtagLists :
          CallPostVideo(l, Some("https://u"), c, h)
    \/ CanCall /\ \E l \in Layers, c \in FileCaptions, h \in FileHashtagLists :
          CallPostVideoFile(l, VideoPath, c, h)
    \/ CanCall /\ \E l \in Layers : CallGetAccountInfo(l)
    \/ CanCall /\ CallGetVideoStatus("42")
    \/ \E o \in Outcomes(stage) : Attempt(o)
    \/ FallThrough
    \/ \E exists \in BOOLEAN : OpenFile(exists)
    \/ \E o \in RawOutcomes : RawUpload(o)
    \/ PublishUploaded

Spec == Init /\ [][Next]_vars

---------------------------------------------------------------------------
(* Reading the log *)

IsRequest(e)    == e.ev = "request"
IsAttempt(e)    == e.ev = "request" /\ e.via = "session"
IsRawUpload(e)  == e.ev = "request" /\ e.via = "requests.post"
IsSleep(e)      == e.ev = "sleep"
IsInit(e)       == IsAttempt(e) /\ e.endpoint = "/post/publish/video/init"
IsPublish(e)    == IsAttempt(e) /\ e.endpoint = "/post/publish/video/url"

Where(P(_)) == {i \in 1..Len(log) : P(log[i])}

NetworkFailed(e) == e.outcome.kind = "error"

(* The calls that consist of exactly one _make_request. *)
SingleRequestCall == op \in {"_make_request", "post_video", "get_account_info", "get_video_status"}

---------------------------------------------------------------------------
(* C1. Retry exhaustion: when every attempt of a _make_request with budget *)
(* n >= 1 fails with a network-level failure, the k-th failed attempt      *)
(* (k < n) is followed by a sleep of 2^k, the n-th by no sleep, there are  *)
(* never more than n attempts, and after the n-th the call has raised the  *)
(* failure of that last attempt.                                           *)
C1_RetryExhaustion ==
    (/\ SingleRequestCall
     /\ req.retries >= 1
     /\ \A i \in Where(IsAttempt) : NetworkFailed(log[i]))
    =>
    LET n == req.retries
        k == Cardinality(Where(IsAttempt))
    IN  /\ k <= n
        /\ Len(log) = IF k < n THEN 2 * k ELSE 2 * n - 1
        /\ \A j \in 1..k : IsAttempt(log[2 * j - 1])
        /\ \A j \in 1..k : j < n => IsSleep(log[2 * j]) /\ log[2 * j].seconds = 2 ^ j
        /\ k < n => pc = "request"
        /\ k = n => /\ pc = "done"
                    /\ apiOutcome = Raising(log[Len(log)].outcome.exc)

C1_Witness ==
    /\ op = "_make_request"
    /\ req.retries > DefaultRetries
    /\ pc = "done"
    /\ apiOutcome.kind = "raise"
    /\ Cardinality(Where(IsAttempt)) = req.retries
    /\ \A i \in Where(IsAttempt) : NetworkFailed(log[i])
    /\ log[1].outcome # log[Len(log)].outcome

(* C2. Retry recovery: when k < n attempts fail with a network-level       *)
(* failure and attempt k+1 gets a decodable 2xx response, the call has     *)
(* returned exactly that decoded body after k+1 attempts; in every call a  *)
(* successful attempt is followed by no sleep of its own and by no further *)
(* attempt to the same endpoint (only the raw upload of post_video_file    *)
(* may come next).                                                         *)
C2_RetryRecovery ==
    /\ \A i \in Where(IsAttempt) :
          log[i].outcome.kind = "json" =>
             /\ \A j \in (i + 1)..Len(log) :
                   ~(IsAttempt(log[j]) /\ log[j].endpoint = log[i].endpoint)
             /\ i < Len(log) => IsRawUpload(log[i + 1])
    /\ (/\ SingleRequestCall
        /\ log # <<>>
        /\ IsAttempt(log[Len(log)])
        /\ log[Len(log)].outcome.kind = "json"
        /\ \A i \in Where(IsAttempt) : i < Len(log) => NetworkFailed(log[i]))
       =>
       LET k == Cardinality(Where(IsAttempt)) - 1
       IN  /\ k < req.retries
           /\ Len(log) = 2 * k + 1
           /\ pc = "done"
           /\ apiOutcome = Returned(Some(log[Len(log)].outcome.body))

C2_Witness ==
    /\ SingleRequestCall
    /\ req.retries = DefaultRetries
    /\ pc = "done"
    /\ Cardinality(Where(IsAttempt)) = 3
    /\ NetworkFailed(log[1])
    /\ NetworkFailed(log[3])
    /\ log[Len(log)].outcome.kind = "json"
    /\ apiOutcome.kind = "return"

(* C5. Decode failure is not retried: an attempt that gets a 2xx response  *)
(* whose body is not JSON is the last event of the call, which has raised  *)
(* the decode failure.                                                     *)
C5_DecodeFailureNotRetried ==
    \A i \in Where(IsAttempt) :
        log[i].outcome.kind = "badjson" =>
            /\ i = Len(log)
            /\ pc = "done"
            /\ apiOutcome = Raising(JSONDecodeError)

(* C9. Every _make_request call ends by returning a decoded body or by     *)
(* raising, whatever the retry budget: it never returns None.              *)
C9_ReturnsBodyOrRaises ==
    (op = "_make_request" /\ pc = "done") =>
        \/ apiOutcome.kind = "raise"
        \/ apiOutcome.kind = "return" /\ apiOutcome.value # None

(* C7. Wire shape: an attempt of _make_request carries a JSON body only    *)
(* when the method is POST, PUT or PATCH (in any letter case), the body    *)
(* then holds api_secret equal to the client's secret, on first and        *)
(* retried attempts alike; it carries query parameters only when the       *)
(* method is GET; never both; get_account_info and get_video_status send   *)
(* no body.                                                                *)
C7_WireShape ==
    \A i \in Where(IsAttempt) :
        LET e == log[i]
        IN  /\ e.json # None =>
                 /\ e.method \in {"POST", "PUT", "PATCH", "post"}
                 /\ "api_secret" \in DOMAIN e.json[1]
                 /\ e.json[1].api_secret = ApiSecret
            /\ e.params # None => e.method \in {"GET", "get"}
            /\ ~(e.json # None /\ e.params # None)
            /\ op \in {"get_account_info", "get_video_status"} => e.json = None

C7_Witness ==
    /\ op = "_make_request"
    /\ Cardinality(Where(IsAttempt)) >= 2
    /\ log[1].method = "post"
    /\ req.params # None
    /\ \A i \in Where(IsAttempt) :
          log[i].json # None /\ log[i].json[1].api_secret = ApiSecret /\ log[i].params = None

C4_UploadOrdering ==
    op = "post_video_file" =>
        LET inits == Where(IsInit)
            raws  == Where(IsRawUpload)
            pubs  == Where(IsPublish)
        IN  /\ log # <<>> => IsInit(log[1])
            /\ \A r \in raws :
                  /\ r > 1
                  /\ IsInit(log[r - 1])
                  /\ log[r - 1].outcome.kind = "json"
                  /\ \A i \in inits : i < r
            /\ \A p \in pubs :
                  \E r \in raws :
                     /\ r < p
                     /\ log[r].outcome.kind = "ok"
                     /\ \A q \in pubs : r < q
                     /\ log[p].json[1].video_url = log[r - 1].outcome.body.video_url
            /\ (\A i \in inits : log[i].outcome.kind # "json") => raws = {} /\ pubs = {}
            /\ \A r \in raws :
                  log[r].outcome.kind # "ok" =>
                     /\ pubs = {}
                     /\ pc = "done"
                     /\ apiOutcome = Raising(log[r].outcome.exc)
            /\ apiOutcome.kind = "return" => inits # {} /\ raws # {} /\ pubs # {}

C4_Witness ==
    /\ op = "post_video_file"
    /\ pc = "done"
    /\ apiOutcome.kind = "return"
    /\ Cardinality(Where(IsInit)) = 2
    /\ Cardinality(Where(IsRawUpload)) = 1
    /\ Cardinality(Where(IsPublish)) = 2
    /\ \E p \in Where(IsPublish) : log[p].json[1].video_url = Some("https://video")

RECURSIVE DropLeading(_)
DropLeading(s) ==
    IF s # <<>> /\ Head(s) = " " THEN DropLeading(Tail(s)) ELSE s

RECURSIVE DropTrailing(_)
DropTrailing(s) ==
    IF s # <<>> /\ s[Len(s)] = " " THEN DropTrailing(SubSeq(s, 1, Len(s) - 1)) ELSE s

---------------------------------------------------------------------------
(* The phases of one post_video_file call, read off the code position. *)

Phase ==
    CASE pc = "idle"                                   -> "Idle"
      [] pc = "request" /\ stage = "init"              -> "Uploading"
      [] pc \in {"open", "raw"}                         -> "Uploading"
      [] pc = "uploaded"                               -> "Uploaded"
      [] pc = "request" /\ stage # "init"              -> "Publishing"
      [] pc = "done" /\ apiOutcome.kind = "return"     -> "Published"
      [] OTHER                                         -> "Failed"

Rank(ph) ==
    CASE ph = "Idle" -> 0 [] ph = "Uploading" -> 1 [] ph = "Uploaded" -> 2
      [] ph = "Publishing" -> 3 [] ph = "Published" -> 4 [] OTHER -> 5

Order(e) == IF IsInit(e) THEN 1 ELSE IF IsRawUpload(e) THEN 2 ELSE 3

FileCallShape ==
    op = "post_video_file" =>
        /\ Cardinality(Where(IsRawUpload)) <= 1
        /\ Phase \in {"Uploaded", "Publishing", "Published"} =>
              Cardinality(Where(IsRawUpload)) = 1
        /\ Cardinality(Where(IsInit)) <= 3
        /\ Cardinality(Where(IsPublish)) <= 3
        /\ Cardinality(Where(IsRequest)) <= 7
        /\ \A i, j \in Where(IsRequest) : i < j => Order(log[i]) <= Order(log[j])
        /\ (\E i \in Where(IsRawUpload) : log[i].outcome.kind # "ok") => Phase = "Failed"
        /\ (\A i \in Where(IsInit) : log[i].outcome.kind # "json")
              /\ Cardinality(Where(IsInit)) = 3 => Phase = "Failed"
        /\ (\A i \in Where(IsPublish) : log[i].outcome.kind # "json")
              /\ Cardinality(Where(IsPublish)) = 3 => Phase = "Failed"
        /\ Phase = "Published" => log[Len(log)].outcome.kind = "json"

FileCallStep ==
    op' = "post_video_file" =>
        /\ \/ Phase' = Phase
           \/ Phase' = "Failed" /\ Phase \in {"Uploading", "Publishing"}
           \/ Phase' # "Failed" /\ Rank(Phase') = Rank(Phase) + 1
        /\ Phase \in {"Failed", "Published"} => log' = log /\ pc' = pc
        /\ Len(log') > Len(log) => Phase \in {"Uploading", "Publishing"}

(* C8. Upload-then-post state machine: a post_video_file call moves only   *)
(* forward through Idle, Uploading, Uploaded, Publishing, Published; a     *)
(* failure moves it from Uploading or Publishing to Failed, where nothing  *)
(* more is issued; the raw upload is attempted at most once (once when the *)
(* call gets past Uploading); init-upload and post-by-url are attempted at *)
(* most 3 times each, in that order, so a call issues at most 7 requests.  *)
C8_UploadStateMachine == [][FileCallStep]_vars /\ []FileCallShape

C8_Witness ==
    /\ op = "post_video_file"
    /\ Phase = "Failed"
    /\ Cardinality(Where(IsRequest)) = 7
    /\ Cardinality(Where(IsRawUpload)) = 1

(* C10. post_video_file does not validate the init-upload response: when   *)
(* init-upload returned and the raw upload succeeded, post-by-url is       *)
(* issued, and its body carries whatever video_url the init response held, *)
(* None when it held none.                                                 *)
C10_PublishWithoutValidation ==
    (op = "post_video_file" /\ pc = "done") =>
        \A r \in Where(IsRawUpload) :
            log[r].outcome.kind = "ok" =>
                /\ r < Len(log)
                /\ IsPublish(log[r + 1])
                /\ \A p \in Where(IsPublish) :
                      /\ "video_url" \in DOMAIN log[p].json[1]
                      /\ log[p].json[1].video_url = log[r - 1].outcome.body.video_url

C10_Witness ==
    /\ op = "post_video_file"
    /\ pc = "done"
    /\ apiOutcome.kind = "return"
    /\ \E r \in Where(IsRawUpload) :
          /\ log[r].outcome.kind = "ok"
          /\ log[r - 1].outcome.body.video_url = None
    /\ \E p \in Where(IsPublish) : log[p].json[1].video_url = None

====
